---- MODULE Spec2Model ----
(***************************************************************************)
(* Data layer of the Torus Hacker News reader (src/samples/hn-reader/     *)
(* main.js): the hnFetch cache, Item records, the paged StoryStore and    *)
(* the truncating CommentStore, run on one cooperative event loop; and    *)
(* the string renderer of JDOM trees (src/renderers/string-renderer.js).  *)
(*                                                                         *)
(* Optional JavaScript values are sequences of length at most one:        *)
(* <<>> is undefined / absent, <<v>> is the value v.                       *)
(***************************************************************************)
EXTENDS Integers, Sequences, FiniteSets, TLC

\* ------------------------------------------------------------------ bounds
MaxId == 3          \* item ids are 1..MaxId
PageSize == 2       \* the limit given to the StoryStore constructor
VisibleLimit == 2   \* the limit given to the CommentStore constructor
MaxPage == 1        \* largest page number a route is dispatched with
MinPageAbs == 2     \* routes are dispatched down to page -MinPageAbs
MaxInflight == 2    \* network requests in flight at once
MaxHeap == 3        \* Item objects ever constructed
MaxKids == 3        \* longest comment id list handed to a CommentStore
MaxChildren == 2    \* longest child array of the JDOM object handed to the renderer
MaxNum == 10        \* largest number rendered as a leaf

Ids == 1..MaxId
Pages == (0 - MinPageAbs)..MaxPage
Scores == {1}       \* the scores the detail endpoint reports

Min(a, b) == IF a < b THEN a ELSE b
Max(a, b) == IF a > b THEN a ELSE b

\* ------------------------------------------------------------- API values
\* '/' + slug and `/item/${id}`: the two shapes of API path.
ListKey == [path |-> "topstories", id |-> 0]
ItemKey(i) == [path |-> "item", id |-> i]
Keys == {ListKey} \cup {ItemKey(i) : i \in Ids}

\* What the listing endpoint may answer: an ordered id list, whose order changes.
Listings == {<<1, 2, 3>>, <<3, 1, 2>>}

\* What the detail endpoint may answer for item i: a flat object; fields may be absent.
\* The id field a detail response for item i may carry: i, and for item 1 also
\* an id that is not the requested one.
ResponseIds(i) == IF i = 1 THEN {i, i + 1} ELSE {i}

Details(i) ==
    [id : ResponseIds(i), type : {<<>>, <<"story">>}, score : {<<s>> : s \in Scores}]

\* The comment id lists a CommentStore may be given (a parent's kids): the
\* first n ids counting up from 1, or down from MaxId.
KidLists ==
    {[i \in 1..n |-> i] : n \in 0..Min(MaxKids, MaxId)}
        \cup {[i \in 1..n |-> MaxId + 1 - i] : n \in 0..Min(MaxKids, MaxId)}

\* The paths hnFetch is called with directly: the listing and one item.
CallKeys == {ListKey, ItemKey(1)}

Responses(key) == IF key = ListKey THEN Listings ELSE Details(key.id)

\* -------------------------------------------------------------- the state
VARIABLES
    CACHE,        \* the module-level Map: key -> <<>> (no entry) or <<response>>
    net,          \* network requests in flight, in the order they were issued
    micro,        \* promise reactions queued on the microtask queue, in order
    heap,         \* every Item constructed so far: handle -> [id, attrs]
    records,      \* StoryStore.records: handles, in order
    pageNumber,   \* StoryStore.pageNumber
    cRecords,     \* CommentStore.records: handles, in order
    hiddenCount,  \* CommentStore.hiddenCount
    cLimit,       \* CommentStore.limit
    declared,     \* the id list the CommentStore was last given (history)
    failed,       \* the key of the direct hnFetch call rejected last, if any (history)
    last,         \* what the last step was and what it did (history)
    tree,         \* the JDOM tree handed to the string renderer, as it is now
    given,        \* that tree as it was when first handed over (history)
    out           \* <<>>, or <<[ok, str]>>: what the last stringRenderJDOM call gave

vars == <<CACHE, net, micro, heap, records, pageNumber, cRecords, hiddenCount,
          cLimit, declared, failed, last, tree, given, out>>

NoKey == [path |-> "", id |-> 0]

\* A continuation: who consumes the value hnFetch's promise resolves to.
\*   "caller"  a direct caller of hnFetch
\*   "item"    Item.fetch's then-callback on record rec
\*   "stories" StoryStore.fetch's then-callback
\* `at` is history: the page the StoryStore was on when fetch() was called.
ContCaller == [kind |-> "caller", rec |-> 0, at |-> 0]
ContItem(r) == [kind |-> "item", rec |-> r, at |-> 0]
ContStories(p) == [kind |-> "stories", rec |-> 0, at |-> p]
NoCont == [kind |-> "", rec |-> 0, at |-> 0]

NoAttrs == [id |-> <<>>, order |-> <<>>, type |-> <<>>, score |-> <<>>]

\* The history record of a step.
Step(op, key, cont, page, val, st) ==
    [op |-> op, key |-> key, kind |-> cont.kind, rec |-> cont.rec, at |-> cont.at,
     page |-> page, val |-> val,
     issued |-> st.issued, notes |-> st.notes, ret |-> st.ret,
     resolved |-> st.resolved, forced |-> st.forced, idx |-> st.idx]

\* The program state a handler runs on, with what the handler has done so far:
\* requests issued, subscribers notified, the value handed to a direct caller,
\* whether the promise it returned is already resolved, whether a skipCache
\* request was issued or answered, and the place in net of the request settled
\* (0 when none was).
Here ==
    [cache |-> CACHE, net |-> net, micro |-> micro, heap |-> heap,
     records |-> records, page |-> pageNumber,
     crecords |-> cRecords, hidden |-> hiddenCount, climit |-> cLimit,
     issued |-> <<>>, notes |-> <<>>, ret |-> <<>>, resolved |-> FALSE,
     forced |-> FALSE, idx |-> 0]

\* ------------------------------------------------------ torus.js primitives
\* Record.get(name)
RecordGet(st, r, name) == st.heap[r].attrs[name]

\* Record.update(partial): shallow merge, then notify the record's subscribers.
RecordUpdate(st, r, partial) ==
    LET old == st.heap[r].attrs
        merged == [f \in DOMAIN old |->
                     IF f \in DOMAIN partial /\ partial[f] # <<>>
                     THEN partial[f] ELSE old[f]]
    IN [st EXCEPT !.heap[r].attrs = merged,
                  !.notes = Append(@, [src |-> "record", rec |-> r,
                                       snap |-> <<merged>>])]

\* Store.reset(records) on the StoryStore ("stories") or the CommentStore
\* ("comments"): replace the collection wholesale, notify once.
StoreReset(st, store, recs) ==
    LET snap == [i \in 1..Len(recs) |-> st.heap[recs[i]].attrs]
    IN IF store = "stories"
       THEN [st EXCEPT !.records = recs,
                       !.notes = Append(@, [src |-> store, rec |-> 0, snap |-> snap])]
       ELSE [st EXCEPT !.crecords = recs,
                       !.notes = Append(@, [src |-> store, rec |-> 0, snap |-> snap])]

\* Array.prototype.slice(a, b): negative indices count from the end.
JsSlice(s, a, b) ==
    LET n == Len(s)
        from == IF a < 0 THEN Max(n + a, 0) ELSE Min(a, n)
        to == IF b < 0 THEN Max(n + b, 0) ELSE Min(b, n)
    IN [i \in 1..Max(to - from, 0) |-> s[from + i]]

\* ----------------------------------------------------------------- hnFetch
\* hnFetch that hands a cached detail to Item.fetch's callback at once.
HnFetchSyncHit(st, key, skipCache, cont) ==
    IF st.cache[key] = <<>> \/ skipCache
    THEN [st EXCEPT !.net = Append(@, [key |-> key, skip |-> skipCache, cont |-> cont]),
                    !.issued = Append(@, key),
                    !.forced = @ \/ skipCache]
    ELSE IF cont.kind = "item"
         THEN RecordUpdate(st, cont.rec, [type |-> st.cache[key][1].type,
                                          score |-> st.cache[key][1].score])
         ELSE [st EXCEPT !.micro = Append(@, [key |-> key, val |-> st.cache[key][1],
                                               cont |-> cont])]

\* hnFetch whose skipCache drops the entry before the request is made.
HnFetchDropping(st, key, skipCache, cont) ==
    IF st.cache[key] = <<>> \/ skipCache
    THEN [st EXCEPT !.cache[key] = <<>>,
                    !.net = Append(@, [key |-> key, skip |-> skipCache, cont |-> cont]),
                    !.issued = Append(@, key),
                    !.forced = @ \/ skipCache]
    ELSE [st EXCEPT !.micro = Append(@, [key |-> key, val |-> st.cache[key][1],
                                          cont |-> cont])]

\* hnFetch(apiPath, skipCache) up to its first await: a miss (or skipCache)
\* issues a network request, a hit returns CACHE.get(apiPath) and the caller's
\* then-callback is queued as a microtask.
HnFetch(st, key, skipCache, cont) ==
    IF st.cache[key] = <<>> \/ skipCache
    THEN [st EXCEPT !.net = Append(@, [key |-> key, skip |-> skipCache, cont |-> cont]),
                    !.issued = Append(@, key),
                    !.forced = @ \/ skipCache]
    ELSE [st EXCEPT !.micro = Append(@, [key |-> key, val |-> st.cache[key][1],
                                          cont |-> cont])]

\* ------------------------------------------------------------------- Item
\* get loaded() with the `score` attribute as the proxy.
LoadedByScore(st, r) == RecordGet(st, r, "score") # <<>>

\* get loaded(): the `type` attribute as a proxy.
Loaded(st, r) == RecordGet(st, r, "type") # <<>>

\* Item.fetch() without the loaded check.
ItemFetchAlways(st, r) ==
    HnFetch(st, ItemKey(st.heap[r].id), FALSE, ContItem(r))

\* Item.fetch()
ItemFetch(st, r) ==
    IF ~Loaded(st, r)
    THEN HnFetch(st, ItemKey(st.heap[r].id), FALSE, ContItem(r))
    ELSE [st EXCEPT !.resolved = TRUE]

\* Item.fetch's then-callback that merges only while a store still holds the
\* Record.
ItemLoadedIfAttached(st, r, data) ==
    IF \/ \E i \in DOMAIN st.records : st.records[i] = r
       \/ \E i \in DOMAIN st.crecords : st.crecords[i] = r
    THEN LET st1 == RecordUpdate(st, r, [type |-> data.type, score |-> data.score])
         IN [st1 EXCEPT !.heap[r].merged = @ \cup {data.type}]
    ELSE st

\* Item.fetch's then-callback without the destructuring: this.update(data).
ItemLoadedKeepingId(st, r, data) ==
    LET st1 == RecordUpdate(st, r, [id |-> <<data.id>>, type |-> data.type,
                                    score |-> data.score])
    IN [st1 EXCEPT !.heap[r].merged = @ \cup {data.type}]

\* Item.fetch's then-callback: const {id, ...attrs} = data; this.update(attrs).
\* The Record's merged field is history: the type fields of the responses
\* merged into it so far.
ItemLoaded(st, r, data) ==
    LET st1 == RecordUpdate(st, r, [type |-> data.type, score |-> data.score])
    IN [st1 EXCEPT !.heap[r].merged = @ \cup {data.type}]

\* ------------------------------------------------------------- StoryStore
RECURSIVE FetchEach(_, _)
\* for (const story of storyRecords) story.fetch()
FetchEach(st, hs) ==
    IF hs = <<>> THEN st
    ELSE FetchEach(ItemFetch(st, Head(hs)), Tail(hs))

\* new Story(id, {order}) with the rank counted from 0.
NewStoriesRankedFromZero(st, window) ==
    [i \in 1..Len(window) |->
        [id |-> window[i],
         attrs |-> [NoAttrs EXCEPT !.order = <<(st.page * PageSize) + (i - 1)>>],
         merged |-> {}]]

\* new Story(id, {order}) for every id of the page window
NewStories(st, window) ==
    [i \in 1..Len(window) |->
        [id |-> window[i],
         attrs |-> [NoAttrs EXCEPT !.order = <<(st.page * PageSize) + 1 + (i - 1)>>],
         merged |-> {}]]

\* StoryStore.fetch's then-callback
StoriesLoaded(st, stories) ==
    LET window == JsSlice(stories, st.page * PageSize, (st.page + 1) * PageSize)
        handles == [i \in 1..Len(window) |-> Len(st.heap) + i]
        st1 == [st EXCEPT !.heap = @ \o NewStories(st, window)]
    IN FetchEach(StoreReset(st1, "stories", handles), handles)

\* StoryStore.fetch()
StoryFetch(st) == HnFetch(st, ListKey, FALSE, ContStories(st.page))

\* gotoPage that keeps the records of the page it leaves.
GotoPageNoReset(st, n) ==
    IF st.page # n
    THEN StoryFetch([st EXCEPT !.page = n])
    ELSE st

\* gotoPage without the same-page check.
GotoPageAlways(st, n) ==
    StoryFetch(StoreReset([st EXCEPT !.page = n], "stories", <<>>))

\* StoryStore.gotoPage(pageNumber)
GotoPage(st, n) ==
    IF st.page # n
    THEN StoryFetch(StoreReset([st EXCEPT !.page = n], "stories", <<>>))
    ELSE st

\* ------------------------------------------------------------ CommentStore
\* n - limit without the Math.max.
HiddenOfUnclamped(n, limit) == IF limit = <<>> THEN <<>> ELSE <<n - limit[1]>>

\* Math.max(n - limit, 0); with limit undefined the difference is NaN, and so is
\* the maximum. hiddenCount is <<n>>, or <<>> for NaN.
HiddenOf(n, limit) == IF limit = <<>> THEN <<>> ELSE <<Max(n - limit[1], 0)>>

\* comment_ids.slice(0, limit); an undefined end means the end of the array.
Visible(ids, limit) == IF limit = <<>> THEN ids ELSE JsSlice(ids, 0, limit[1])

\* new Comment(id) for every visible id
NewComments(ids) ==
    [i \in 1..Len(ids) |-> [id |-> ids[i], attrs |-> NoAttrs, merged |-> {}]]

\* CommentStore.resetWith(comment_ids)
ResetWith(st, ids) ==
    LET shown == Visible(ids, st.climit)
        handles == [i \in 1..Len(shown) |-> Len(st.heap) + i]
        st1 == [st EXCEPT !.hidden = HiddenOf(Len(ids), st.climit),
                          !.heap = @ \o NewComments(shown)]
    IN StoreReset(st1, "comments", handles)

\* new CommentStore(comment_ids, limit): super() leaves an empty store with
\* no limit field yet; then the constructor body runs.
CommentStoreNew(st, ids, limit) ==
    LET st0 == [st EXCEPT !.crecords = <<>>, !.climit = <<>>]
        st1 == ResetWith(st0, ids)
    IN [st1 EXCEPT !.hidden = <<0>>, !.climit = <<limit>>]

\* CommentStore.fetch()
CommentFetch(st) == FetchEach(st, st.crecords)

\* ---------------------------------------------------------- continuations
\* Run the then-callback of a settled hnFetch promise.
Continue(st, cont, val) ==
    CASE cont.kind = "item" -> ItemLoaded(st, cont.rec, val)
      [] cont.kind = "stories" -> StoriesLoaded(st, val)
      [] OTHER -> [st EXCEPT !.ret = <<val>>]

\* What a handler may leave behind within the model's bounds.
Fits(st) ==
    /\ Len(st.net) <= MaxInflight
    /\ Len(st.heap) <= MaxHeap

\* The program variables after a handler ended in st.
Commit(st) ==
    /\ CACHE' = st.cache
    /\ net' = st.net
    /\ micro' = st.micro
    /\ heap' = st.heap
    /\ records' = st.records
    /\ pageNumber' = st.page
    /\ cRecords' = st.crecords
    /\ hiddenCount' = st.hidden
    /\ cLimit' = st.climit
    /\ UNCHANGED <<tree, given, out>>

RemoveAt(s, i) == [j \in 1..(Len(s) - 1) |-> IF j < i THEN s[j] ELSE s[j + 1]]

\* ======================================================== string renderer
\* src/renderers/string-renderer.js.  A JavaScript string is the sequence of
\* its characters.  A JDOM node is a record: kind "null", "text" (a string),
\* "num" (a number) or "elem" (an object); for an object, `has` is the set of
\* the fields attrs / events / children that are own properties of it, attrs
\* the attribute map in insertion order and children the child array (both
\* empty while the field is missing).
Fields == {"attrs", "events", "children"}

NullNode ==
    [kind |-> "null", text |-> <<>>, num |-> 0, tag |-> <<>>, has |-> {},
     attrs |-> <<>>, children |-> <<>>]
TextNode(s) == [NullNode EXCEPT !.kind = "text", !.text = s]
NumNode(n) == [NullNode EXCEPT !.kind = "num", !.num = n]
Elem(tag, has, attrs, children) ==
    [NullNode EXCEPT !.kind = "elem", !.tag = tag, !.has = has, !.attrs = attrs,
                     !.children = children]

\* Attribute values: a string, a boolean, an array of strings, a plain object
\* of style declarations, or an iterable of [key, value] pairs.
NoVal == [t |-> "str", b |-> FALSE, s |-> <<>>, list |-> <<>>, pairs |-> <<>>]
StrVal(s) == [NoVal EXCEPT !.s = s]
BoolVal(b) == [NoVal EXCEPT !.t = "bool", !.b = b]
ListVal(l) == [NoVal EXCEPT !.t = "list", !.list = l]
ObjectVal(ps) == [NoVal EXCEPT !.t = "object", !.pairs = ps]
EntriesVal(ps) == [NoVal EXCEPT !.t = "entries", !.pairs = ps]

ClassName == <<"c", "l", "a", "s", "s">>
StyleName == <<"s", "t", "y", "l", "e">>

HTML_IDL_ATTRIBUTES ==
    <<<<"t", "y", "p", "e">>,
      <<"v", "a", "l", "u", "e">>,
      <<"s", "e", "l", "e", "c", "t", "e", "d">>,
      <<"i", "n", "d", "e", "t", "e", "r", "m", "i", "n", "a", "t", "e">>,
      <<"t", "a", "b", "I", "n", "d", "e", "x">>,
      <<"c", "h", "e", "c", "k", "e", "d">>,
      <<"d", "i", "s", "a", "b", "l", "e", "d">>>>

\* Array.prototype.includes
Includes(arr, x) == \E i \in DOMAIN arr : arr[i] = x

\* The characters /\s/ matches, of those the inputs use.
Whitespace == {" ", "\n", "\t"}

Spaces(n) == [i \in 1..n |-> " "]

RECURSIVE Join(_, _)
\* Array.prototype.join of an array of strings
Join(strs, sep) ==
    IF strs = <<>> THEN <<>>
    ELSE IF Len(strs) = 1 THEN strs[1]
    ELSE strs[1] \o sep \o Join(Tail(strs), sep)

DigitChar == <<"0", "1", "2", "3", "4", "5", "6", "7", "8", "9">>

RECURSIVE Digits(_)
\* Number.prototype.toString of a natural number
Digits(n) ==
    IF n < 10 THEN <<DigitChar[n + 1]>>
    ELSE Digits(n \div 10) \o <<DigitChar[(n % 10) + 1]>>

\* `${value}`: the string conversion of an attribute value
StringOf(val) ==
    CASE val.t = "str" -> val.s
      [] val.t = "bool" -> IF val.b THEN <<"t", "r", "u", "e">> ELSE <<"f", "a", "l", "s", "e">>
      [] val.t = "list" -> Join(val.list, <<",">>)
      [] val.t = "entries" ->
            Join([i \in DOMAIN val.pairs |->
                    val.pairs[i].k \o <<",">> \o val.pairs[i].v], <<",">>)
      [] OTHER -> <<"[", "o", "b", "j", "e", "c", "t", " ", "O", "b", "j", "e", "c", "t", "]">>

\* arrayNormalize, with the elements as classes.join(' ') converts them
ArrayNormalize(val) ==
    CASE val.t = "list" -> val.list
      [] val.t = "entries" ->
            [i \in DOMAIN val.pairs |-> val.pairs[i].k \o <<",">> \o val.pairs[i].v]
      [] OTHER -> <<StringOf(val)>>

\* normalizeJDOM that assigns the three defaults whether or not the field is there.
NormalizeJDOMOverwriting(jdom) ==
    [jdom EXCEPT !.has = Fields, !.attrs = <<>>, !.children = <<>>]

\* normalizeJDOM: the missing fields are added to the object it is given.
NormalizeJDOM(jdom) ==
    [jdom EXCEPT !.has = @ \cup Fields,
                 !.attrs = IF "attrs" \in jdom.has THEN @ ELSE <<>>,
                 !.children = IF "children" \in jdom.has THEN @ ELSE <<>>]

\* return node, without the final replace.
NoCollapse(s) == s

\* node.replace(/\s+/g, ' '): every maximal run of whitespace becomes one space.
Collapse(s) ==
    LET marked == [i \in DOMAIN s |->
                     [c |-> IF s[i] \in Whitespace THEN " " ELSE s[i],
                      keep |-> \/ s[i] \notin Whitespace
                               \/ i = 1
                               \/ s[i - 1] \notin Whitespace]]
        kept == SelectSeq(marked, LAMBDA m : m.keep)
    IN [i \in DOMAIN kept |-> kept[i].c]

\* The default branch of the switch that pushes a bare IDL attribute for any
\* value but false.
AttrTokenTruthy(a) ==
    IF Includes(HTML_IDL_ATTRIBUTES, a.name)
    THEN IF a.val # BoolVal(FALSE) THEN <<a.name>> ELSE <<>>
    ELSE <<a.name \o <<"=", "\"">> \o StringOf(a.val) \o <<"\"">>>>

\* The default branch of the switch: what one attribute pushes onto attrs.
AttrToken(a) ==
    IF Includes(HTML_IDL_ATTRIBUTES, a.name)
    THEN IF a.val = BoolVal(TRUE) THEN <<a.name>> ELSE <<>>
    ELSE <<a.name \o <<"=", "\"">> \o StringOf(a.val) \o <<"\"">>>>

RECURSIVE AttrTokens(_)
\* The attrs array after the for-in loop.
AttrTokens(attrs) ==
    IF attrs = <<>> THEN <<>>
    ELSE (IF Head(attrs).name \in {ClassName, StyleName}
          THEN <<>> ELSE AttrToken(Head(attrs))) \o AttrTokens(Tail(attrs))

\* The classes array after the loop.
Classes(attrs) ==
    IF \E i \in DOMAIN attrs : attrs[i].name = ClassName
    THEN ArrayNormalize(attrs[CHOOSE i \in DOMAIN attrs : attrs[i].name = ClassName].val)
    ELSE <<>>

\* for (const [styleKey, styleValue] of next.attrs.style): a plain object is
\* not iterable, so the loop throws a TypeError.
StyleThrows(attrs) ==
    \E i \in DOMAIN attrs : attrs[i].name = StyleName /\ attrs[i].val.t # "entries"

\* The styles array after the loop.
Styles(attrs) ==
    IF \E i \in DOMAIN attrs : attrs[i].name = StyleName
    THEN LET ps == attrs[CHOOSE i \in DOMAIN attrs : attrs[i].name = StyleName].val.pairs
         IN [i \in DOMAIN ps |-> ps[i].k \o <<" ">> \o ps[i].v]
    ELSE <<>>

\* The template literal of the object branch.
Template(tag, attrs, styles, classes, children) ==
    <<"<">> \o tag \o <<" ">> \o Join(attrs, <<" ">>) \o <<"\n">> \o Spaces(12)
      \o <<"s", "t", "y", "l", "e", "=", "\"">> \o Join(styles, <<";">>) \o <<"\"", " ", "c", "l", "a", "s", "s", "=", "\"">>
      \o Join(classes, <<" ">>) \o <<"\"", ">", "\n">> \o Spaces(16)
      \o children \o <<"\n">> \o Spaces(8) \o <<"<", "/">> \o tag \o <<">">>

RECURSIVE StringRenderJDOM(_)
RECURSIVE RenderChildren(_, _)
RECURSIVE RenderChildrenReversed(_, _)

\* The loop over next.children with unshift for push: the strings end up in
\* reverse order.
RenderChildrenReversed(children, acc) ==
    IF children = <<>> \/ ~acc.ok
    THEN [acc EXCEPT !.nodes = @ \o children]
    ELSE LET r == StringRenderJDOM(Head(children))
         IN RenderChildrenReversed(Tail(children),
                                   [ok |-> r.ok, str |-> r.str \o acc.str,
                                    nodes |-> Append(acc.nodes, r.node)])

\* for (const child of next.children) children.push(stringRenderJDOM(..., child)),
\* then children.join(''); a throw ends the loop with the rest not visited.
RenderChildren(children, acc) ==
    IF children = <<>> \/ ~acc.ok
    THEN [acc EXCEPT !.nodes = @ \o children]
    ELSE LET r == StringRenderJDOM(Head(children))
         IN RenderChildren(Tail(children),
                           [ok |-> r.ok, str |-> acc.str \o r.str,
                            nodes |-> Append(acc.nodes, r.node)])

\* stringRenderJDOM(_node, _previous, next): ok and the string returned (ok is
\* FALSE when it throws), and next as the call leaves it.
StringRenderJDOM(next) ==
    CASE next.kind = "null" ->
            [ok |-> TRUE, str |-> Collapse(<<"<", "!", "-", "-", " ", "-", "-", ">">>), node |-> next]
      [] next.kind = "text" ->
            [ok |-> TRUE, str |-> Collapse(next.text), node |-> next]
      [] next.kind = "num" ->
            [ok |-> TRUE, str |-> Collapse(Digits(next.num)), node |-> next]
      [] OTHER ->
            LET n == NormalizeJDOM(next)
            IN IF StyleThrows(n.attrs)
               THEN [ok |-> FALSE, str |-> <<>>, node |-> n]
               ELSE LET rc == RenderChildren(n.children,
                                             [ok |-> TRUE, str |-> <<>>, nodes |-> <<>>])
                        nn == [n EXCEPT !.children = rc.nodes]
                    IN IF ~rc.ok
                       THEN [ok |-> FALSE, str |-> <<>>, node |-> nn]
                       ELSE [ok |-> TRUE,
                             str |-> Collapse(Template(n.tag, AttrTokens(n.attrs),
                                                       Styles(n.attrs), Classes(n.attrs),
                                                       rc.str)),
                             node |-> nn]

\* ------------------------------------------------------ trees to render
Tags == {<<"d", "i", "v">>, <<"i", "n", "p", "u", "t">>}
Texts == {<<"a">>, <<" ", " ", "b", "\n">>}
Nums == {0, MaxNum}
Leaves == {NullNode} \cup {TextNode(t) : t \in Texts} \cup {NumNode(n) : n \in Nums}

AttrMaps ==
    {<<>>,
     <<[name |-> <<"c", "h", "e", "c", "k", "e", "d">>,
        val |-> BoolVal(TRUE)],
       [name |-> <<"v", "a", "l", "u", "e">>,
        val |-> StrVal(<<"x">>)]>>,
     <<[name |-> <<"i", "d">>,
        val |-> StrVal(<<"m">>)],
       [name |-> <<"c", "h", "e", "c", "k", "e", "d">>,
        val |-> BoolVal(FALSE)],
       [name |-> <<"t", "i", "t", "l", "e">>,
        val |-> BoolVal(TRUE)]>>,
     <<[name |-> <<"c", "l", "a", "s", "s">>,
        val |-> StrVal(<<"c", " ", "d">>)]>>,
     <<[name |-> <<"c", "l", "a", "s", "s">>,
        val |-> ListVal(<<<<"c">>, <<"d">>>>)],
       [name |-> <<"d", "i", "s", "a", "b", "l", "e", "d">>,
        val |-> BoolVal(TRUE)]>>,
     <<[name |-> <<"s", "t", "y", "l", "e">>,
        val |-> ObjectVal(<<[k |-> <<"c", "o", "l", "o", "r">>, v |-> <<"r", "e", "d">>]>>)]>>,
     <<[name |-> <<"s", "t", "y", "l", "e">>,
        val |-> EntriesVal(<<[k |-> <<"c", "o", "l", "o", "r">>, v |-> <<"r", "e", "d">>],
            [k |-> <<"t", "o", "p">>, v |-> <<"0">>]>>)],
       [name |-> <<"i", "d">>,
        val |-> StrVal(<<"m", " ", " ", "n">>)]>>,
     <<[name |-> <<"t", "y", "p", "e">>,
        val |-> StrVal(<<"t", "e", "x", "t">>)],
       [name |-> <<"t", "a", "b", "I", "n", "d", "e", "x">>,
        val |-> BoolVal(TRUE)],
       [name |-> <<"h", "r", "e", "f">>,
        val |-> StrVal(<<"#">>)]>>}

\* The fields an object literal with these attributes and children spells out
\* at least.
Minimal(attrs, children) ==
    (IF attrs # <<>> THEN {"attrs"} ELSE {})
      \cup (IF children # <<>> THEN {"children"} ELSE {})

Inner ==
    {Elem(<<"s", "p", "a", "n">>, {}, <<>>, <<>>),
     Elem(<<"s", "p", "a", "n">>, Fields, <<[name |-> <<"c", "l", "a", "s", "s">>,
        val |-> StrVal(<<"c">>)]>>, <<TextNode(<<"a">>)>>),
     Elem(<<"s", "p", "a", "n">>, {"attrs"}, <<[name |-> <<"s", "t", "y", "l", "e">>,
        val |-> ObjectVal(<<[k |-> <<"c", "o", "l", "o", "r">>, v |-> <<"r", "e", "d">>]>>)]>>, <<>>),
     Elem(<<"s", "p", "a", "n">>, {"children"}, <<>>, <<NullNode>>)}

ChildLists == UNION {[1..n -> Leaves \cup Inner] : n \in 0..MaxChildren}

Inputs ==
    Leaves \cup
    {Elem(tag, has, attrs, children) :
        tag \in Tags, attrs \in AttrMaps, children \in ChildLists,
        has \in {Fields}} \cup
    {Elem(tag, Minimal(attrs, children), attrs, children) :
        tag \in Tags, attrs \in AttrMaps, children \in ChildLists}

\* ------------------------------------------------------------------ Init
\* new StoryStore('topstories', PageSize) and new CommentStore(), nothing fetched.
InitData ==
    /\ CACHE = [k \in Keys |-> <<>>]
    /\ net = <<>>
    /\ micro = <<>>
    /\ heap = <<>>
    /\ records = <<>>
    /\ pageNumber = 0
    /\ cRecords = <<>>
    /\ hiddenCount = <<0>>
    /\ cLimit = <<VisibleLimit>>
    /\ declared = <<>>
    /\ failed = <<>>
    /\ last = Step("init", NoKey, NoCont, 0, <<>>, Here)

\* The data layer alone: nothing is rendered to a string.
Init ==
    /\ InitData
    /\ tree = NullNode
    /\ given = tree
    /\ out = <<>>

\* The renderer alone, about to be handed any of the trees.
InitRender ==
    /\ InitData
    /\ tree \in Inputs
    /\ given = tree
    /\ out = <<>>

\* --------------------------------------------------------------- actions
\* Event handlers start only when the microtask queue has drained.

\* A direct call hnFetch(key, skipCache).
HnFetchCall(key, skipCache) ==
    /\ micro = <<>>
    /\ LET st == HnFetch(Here, key, skipCache, ContCaller)
       IN /\ Fits(st)
          /\ Commit(st)
          /\ last' = Step("hnFetch", key, ContCaller, 0, <<>>, st)
    /\ UNCHANGED <<declared, failed>>

\* A call of fetch() on an Item a store holds.
ItemFetchCall(r) ==
    /\ micro = <<>>
    /\ \/ \E i \in DOMAIN records : records[i] = r
       \/ \E i \in DOMAIN cRecords : cRecords[i] = r
    /\ LET st == ItemFetch(Here, r)
       IN /\ Fits(st)
          /\ Commit(st)
          /\ last' = Step("itemFetch", ItemKey(heap[r].id), ContItem(r), 0, <<>>, st)
    /\ UNCHANGED <<declared, failed>>

\* A call of StoryStore.fetch() (App.init, and whoever refreshes the list).
StoryFetchCall ==
    /\ micro = <<>>
    /\ LET st == StoryFetch(Here)
       IN /\ Fits(st)
          /\ Commit(st)
          /\ last' = Step("storyFetch", ListKey, ContStories(pageNumber), pageNumber, <<>>, st)
    /\ UNCHANGED <<declared, failed>>

\* The route handler of App.init, as far as the store goes: 'page' with a page
\* number other than 0 calls gotoPage(n); page 0 redirects to '/', whose handler
\* (default) calls gotoPage(0).
Route(n) ==
    /\ micro = <<>>
    /\ LET st == GotoPage(Here, n)
       IN /\ Fits(st)
          /\ Commit(st)
          /\ last' = Step("gotoPage", ListKey, ContStories(n), n, <<>>, st)
    /\ UNCHANGED <<declared, failed>>

\* router.go of '/page/n' by hand, for any n.
RoutePage == \E n \in Pages : Route(n)

\* StoryStore.nextPage()
NextPage == pageNumber + 1 <= MaxPage /\ Route(pageNumber + 1)

\* StoryStore.previousPage()
PreviousPage == Route(Max(0, pageNumber - 1))

\* A call of new CommentStore(ids, VisibleLimit), replacing the store held.
CommentStoreNewCall(ids) ==
    /\ micro = <<>>
    /\ LET st == CommentStoreNew(Here, ids, VisibleLimit)
       IN /\ Fits(st)
          /\ Commit(st)
          /\ last' = Step("newCommentStore", NoKey, NoCont, 0, <<ids>>, st)
    /\ declared' = ids
    /\ UNCHANGED failed

\* A call of resetWith(ids) (a parent's kids changed).
ResetWithCall(ids) ==
    /\ micro = <<>>
    /\ LET st == ResetWith(Here, ids)
       IN /\ Fits(st)
          /\ Commit(st)
          /\ last' = Step("resetWith", NoKey, NoCont, 0, <<ids>>, st)
    /\ declared' = ids
    /\ UNCHANGED failed

\* A call of CommentStore.fetch().
CommentFetchCall ==
    /\ micro = <<>>
    /\ LET st == CommentFetch(Here)
       IN /\ Fits(st)
          /\ Commit(st)
          /\ last' = Step("commentFetch", NoKey, NoCont, 0, <<>>, st)
    /\ UNCHANGED <<declared, failed>>

\* The network answers request i: result = await fetch(...).then(resp => resp.json()),
\* CACHE.set(apiPath, result), return result; then the caller's then-callback.
Resolve(i) ==
    /\ micro = <<>>
    /\ i \in DOMAIN net
    /\ \E result \in Responses(net[i].key) :
         LET req == net[i]
             st0 == [Here EXCEPT !.net = RemoveAt(net, i),
                                 !.cache[req.key] = <<result>>,
                                 !.forced = req.skip, !.idx = i]
             st == Continue(st0, req.cont, result)
         IN /\ Fits(st)
            /\ Commit(st)
            /\ last' = Step("resolve", req.key, req.cont, pageNumber, <<result>>, st)
    /\ UNCHANGED <<declared, failed>>

\* A rejected detail load that still runs Item.fetch's callback, with nothing
\* to merge.
RejectMerging(i) ==
    /\ micro = <<>>
    /\ i \in DOMAIN net
    /\ LET req == net[i]
           st0 == [Here EXCEPT !.net = RemoveAt(net, i), !.forced = req.skip, !.idx = i]
           st == IF req.cont.kind = "item"
                 THEN RecordUpdate(st0, req.cont.rec, [type |-> <<>>, score |-> <<>>])
                 ELSE st0
       IN /\ Commit(st)
          /\ last' = Step("reject", req.key, req.cont, pageNumber, <<>>, st)
          /\ failed' = IF req.cont.kind = "caller" THEN <<req.key>> ELSE failed
    /\ UNCHANGED declared

\* A rejected load that deletes whatever its key held.
RejectEvicting(i) ==
    /\ micro = <<>>
    /\ i \in DOMAIN net
    /\ LET req == net[i]
           st == [Here EXCEPT !.net = RemoveAt(net, i), !.forced = req.skip, !.idx = i,
                              !.cache[req.key] = <<>>]
       IN /\ Commit(st)
          /\ last' = Step("reject", req.key, req.cont, pageNumber, <<>>, st)
          /\ failed' = IF req.cont.kind = "caller" THEN <<req.key>> ELSE failed
    /\ UNCHANGED declared

\* A rejected load that leaves an entry behind under its key.
RejectPoisoned(i) ==
    /\ micro = <<>>
    /\ i \in DOMAIN net
    /\ LET req == net[i]
           st == [Here EXCEPT !.net = RemoveAt(net, i),
                              !.cache[req.key] = <<CHOOSE v \in Responses(req.key) : TRUE>>]
       IN /\ Commit(st)
          /\ last' = Step("reject", req.key, req.cont, pageNumber, <<>>, st)
          /\ failed' = IF req.cont.kind = "caller" THEN <<req.key>> ELSE failed
    /\ UNCHANGED declared

\* Request i fails: the await throws, hnFetch's promise rejects, no callback runs.
Reject(i) ==
    /\ micro = <<>>
    /\ i \in DOMAIN net
    /\ LET req == net[i]
           st == [Here EXCEPT !.net = RemoveAt(net, i), !.forced = req.skip, !.idx = i]
       IN /\ Commit(st)
          /\ last' = Step("reject", req.key, req.cont, pageNumber, <<>>, st)
          /\ failed' = IF req.cont.kind = "caller" THEN <<req.key>> ELSE failed
    /\ UNCHANGED declared

\* The next microtask: the then-callback of an hnFetch call that hit the cache.
MicroStep ==
    /\ micro # <<>>
    /\ LET job == Head(micro)
           st == Continue([Here EXCEPT !.micro = Tail(micro)], job.cont, job.val)
       IN /\ Fits(st)
          /\ Commit(st)
          /\ last' = Step("hit", job.key, job.cont, pageNumber, <<job.val>>, st)
    /\ UNCHANGED <<declared, failed>>

\* The stores and their records on the event loop.
Next ==
    \/ \E r \in 1..MaxHeap : ItemFetchCall(r)
    \/ StoryFetchCall
    \/ RoutePage
    \/ NextPage
    \/ PreviousPage
    \/ \E i \in 1..MaxInflight : Resolve(i)
    \/ \E i \in 1..MaxInflight : Reject(i)
    \/ MicroStep

Spec == Init /\ [][Next]_vars

\* The CommentStore and its records on the event loop.
NextComments ==
    \/ \E ids \in KidLists : CommentStoreNewCall(ids)
    \/ \E ids \in KidLists : ResetWithCall(ids)
    \/ CommentFetchCall
    \/ \E i \in 1..MaxInflight : Resolve(i)
    \/ \E i \in 1..MaxInflight : Reject(i)
    \/ MicroStep

SpecComments == Init /\ [][NextComments]_vars

\* hnFetch alone, called directly with and without skipCache.
NextCache ==
    \/ \E k \in CallKeys, skip \in BOOLEAN : HnFetchCall(k, skip)
    \/ \E i \in 1..MaxInflight : Resolve(i)
    \/ \E i \in 1..MaxInflight : Reject(i)
    \/ MicroStep

SpecCache == Init /\ [][NextCache]_vars

\* A call stringRenderJDOM(undefined, undefined, tree): normalizeJDOM writes to
\* the objects of the tree, the string (or the throw) goes to the caller.
Render ==
    /\ LET r == StringRenderJDOM(tree)
       IN /\ tree' = r.node
          /\ out' = <<[ok |-> r.ok, str |-> r.str]>>
    /\ UNCHANGED <<CACHE, net, micro, heap, records, pageNumber, cRecords,
                   hiddenCount, cLimit, declared, failed, last, given>>

NextRender == Render

SpecRender == InitRender /\ [][NextRender]_vars


\* ------------------------------------------------------------ properties
InFlight(key) == {i \in DOMAIN net : net[i].key = key /\ ~net[i].skip}

\* C1: non-forced hnFetch calls of one key issued before the first of them
\* resolves share one load: never two non-forced requests of a key in flight.
C1_SingleFlight == \A k \in Keys : Cardinality(InFlight(k)) <= 1

\* C2: fetch() calls on one unloaded Record before the first resolves cause at
\* most one network request: never two requests in flight for the same Record.
C2_OneRequestPerRecord ==
    \A r \in DOMAIN heap :
        Cardinality({i \in DOMAIN net : net[i].cont = ContItem(r)}) <= 1

programVars == <<CACHE, net, micro, heap, records, pageNumber, cRecords, hiddenCount, cLimit>>

\* C3: fetch() on a loaded Record returns an already resolved promise, issues
\* no request, notifies nobody and changes nothing.
C3_LoadedFetchIsNoOp ==
    [][(last'.op = "itemFetch" /\ Loaded(Here, last'.rec))
         => /\ last'.resolved
            /\ last'.issued = <<>>
            /\ last'.notes = <<>>
            /\ UNCHANGED programVars]_vars

C3_Witness ==
    /\ last.op = "itemFetch"
    /\ Loaded(Here, last.rec)
    /\ last.resolved
    /\ last.issued = <<>>

Window(ids, p, s) ==
    LET n == Len(ids)
        lo == IF p * s >= 0 THEN p * s ELSE n + (p * s)
        hi == IF (p + 1) * s >= 0 THEN (p + 1) * s ELSE n + ((p + 1) * s)
        at == {j \in 0..(n - 1) : lo <= j /\ j < hi}
    IN [i \in 1..Cardinality(at) |-> ids[Max(lo, 0) + i]]

IdsOf(recs) == [i \in 1..Len(recs) |-> heap[recs[i]].id]

StoriesCallbackRan == last.op \in {"resolve", "hit"} /\ last.kind = "stories"

\* C5: when a listing fetch of the StoryStore resolves with ids while the store
\* is on page p, the store is reset (one notification) to one fresh Record per
\* id of the window of p, in order, the i-th (from 0) ranked p*PageSize + i + 1.
C5_PageWindow ==
    StoriesCallbackRan =>
        LET w == Window(last.val[1], pageNumber, PageSize)
        IN /\ IdsOf(records) = w
           /\ \A i \in DOMAIN records :
                heap[records[i]].attrs.order = <<(pageNumber * PageSize) + (i - 1) + 1>>
           /\ \A i, j \in DOMAIN records : records[i] = records[j] => i = j
           /\ Len(SelectSeq(last.notes, LAMBDA e : e.src = "stories")) = 1

\* A full window of a page other than the first.
C5_Witness ==
    /\ StoriesCallbackRan
    /\ pageNumber # 0
    /\ records # <<>>
    /\ IdsOf(records) = Window(last.val[1], pageNumber, PageSize)

\* C6: on a constructed CommentStore with limit L, resetWith(ids) sets
\* hiddenCount to max(0, len(ids) - L) and resets the store to fresh id-only
\* Records for the first L ids, in order.
C6_ResetWith ==
    last.op = "resetWith" =>
        LET ids == last.val[1]
            L == cLimit[1]
        IN /\ hiddenCount = <<IF Len(ids) > L THEN Len(ids) - L ELSE 0>>
           /\ Len(cRecords) = (IF Len(ids) > L THEN L ELSE Len(ids))
           /\ \A i \in DOMAIN cRecords :
                /\ heap[cRecords[i]] = [id |-> ids[i], attrs |-> NoAttrs,
                                         merged |-> {}]
                /\ \A j \in DOMAIN cRecords : cRecords[i] = cRecords[j] => i = j
           /\ Len(SelectSeq(last.notes, LAMBDA e : e.src = "comments")) = 1

\* resetWith was given more ids than the limit.
C6_Witness ==
    /\ last.op = "resetWith"
    /\ Len(last.val[1]) > cLimit[1]
    /\ hiddenCount = <<Len(last.val[1]) - cLimit[1]>>
    /\ Len(cRecords) = cLimit[1]

\* C7: in every state of a CommentStore, right after construction included,
\* hiddenCount = max(0, len(declared ids) - limit) and the Records held are
\* those of the first `limit` declared ids.
C7_HiddenCountInvariant ==
    /\ hiddenCount = <<Max(Len(declared) - cLimit[1], 0)>>
    /\ IdsOf(cRecords) = SubSeq(declared, 1, Min(Len(declared), cLimit[1]))

RanksOfPage(recs, p) ==
    \A i \in DOMAIN recs : heap[recs[i]].attrs.order = <<(p * PageSize) + i>>

\* C8: a gotoPage to another page leaves the store empty, and in every state the
\* store is empty or holds the window of the current page of some listing, its
\* Records ranked for the current page.
C8_NoMixedPage ==
    [][/\ (last'.op = "gotoPage" /\ last'.page # pageNumber)
            => (records' = <<>> /\ pageNumber' = last'.page)
       /\ \/ records' = <<>>
          \/ /\ RanksOfPage(records, pageNumber)'
             /\ \E ids \in Listings : IdsOf(records)' = Window(ids, pageNumber', PageSize)]_vars

\* A listing fetch started on another page has resolved on the current page and
\* filled the store.
C8_Witness ==
    /\ last.op = "resolve"
    /\ last.kind = "stories"
    /\ last.at # pageNumber
    /\ records # <<>>

\* C9: gotoPage(n) on page n changes nothing, notifies nobody and issues no
\* request.
C9_SamePageNoOp ==
    [][(last'.op = "gotoPage" /\ last'.page = pageNumber)
         => /\ UNCHANGED programVars
            /\ last'.notes = <<>>
            /\ last'.issued = <<>>]_vars

\* gotoPage to the page shown, with the store filled.
C9_Witness ==
    /\ last.op = "gotoPage"
    /\ last.page = pageNumber
    /\ last.notes = <<>>
    /\ last.issued = <<>>
    /\ records # <<>>

\* C10: every StoryStore.fetch() issues a network request of the listing.
C10_ListingUncached ==
    last.op \in {"storyFetch"} => last.issued = <<ListKey>>

\* C17 as claimed: after a load fails its key has no cache entry, a failed
\* forced refresh of a cached key included.
C17_FailedLoadEvicts ==
    last.op = "reject" => CACHE[last.key] = <<>>

\* C17 as the code has it: a failed load leaves the cache as it was. A key with
\* no entry has none afterwards and the next non-forced get loads again; a key
\* that held a value keeps it and the next non-forced get is served from it.
C17_FailedLoadKeepsCache ==
    [][/\ last'.op = "reject" => CACHE' = CACHE
       /\ (last'.op = "hnFetch" /\ ~last'.forced)
            => IF CACHE[last'.key] = <<>>
               THEN last'.issued = <<last'.key>> /\ micro' = micro
               ELSE /\ last'.issued = <<>>
                    /\ net' = net
                    /\ micro' = Append(micro, [key |-> last'.key,
                                                val |-> CACHE[last'.key][1],
                                                cont |-> ContCaller])]_vars

\* A forced refresh of a cached key has just failed and the value is still there.
C17_Witness ==
    /\ last.op = "reject"
    /\ last.forced
    /\ CACHE[last.key] # <<>>

ForcedInFlight(key) == \E i \in DOMAIN net : net[i].key = key /\ net[i].skip

\* C19: a skipCache call leaves the cached value in place while its request is
\* in flight; a non-forced get of a cached key issues no request and is handed
\* the value cached when it was called; the cache changes only when a request
\* resolves, and then to that request's response.
C19_StaleWhileRefreshing ==
    [][/\ last'.op = "hnFetch" => CACHE' = CACHE
       /\ (last'.op = "hnFetch" /\ ~last'.forced /\ CACHE[last'.key] # <<>>)
            => /\ last'.issued = <<>>
               /\ net' = net
               /\ micro' = <<[key |-> last'.key, val |-> CACHE[last'.key][1],
                              cont |-> ContCaller]>>
       /\ (last'.op = "hit" /\ last'.kind = "caller")
            => /\ last'.ret = <<Head(micro).val>>
               /\ CACHE' = CACHE
       /\ CACHE' # CACHE
            => /\ last'.op = "resolve"
               /\ CACHE' = [CACHE EXCEPT ![last'.key] = last'.val]]_vars

\* A non-forced get has just been handed the cached value while a forced
\* refresh of its key is in flight.
C19_Witness ==
    /\ last.op = "hit"
    /\ last.kind = "caller"
    /\ ForcedInFlight(last.key)
    /\ last.ret = CACHE[last.key]

\* C20: a key that holds a value keeps an entry, a non-forced get of it issues
\* no request, and only a forced refresh replaces the value.
C20_OnlyForcedReplaces ==
    [][\A k \in Keys :
         CACHE[k] # <<>>
           => /\ CACHE'[k] # <<>>
              /\ (last'.op = "hnFetch" /\ last'.key = k /\ ~last'.forced)
                   => last'.issued = <<>>
              /\ CACHE'[k] # CACHE[k] => last'.forced]_vars

\* C11: a listing resolution notifies the StoryStore's subscribers exactly once
\* and merges no detail in the same step, also when a detail is already cached:
\* the snapshot of the notification and the store after the step hold the new
\* ids with no detail merged, and a detail is merged only by a later step that
\* resolves a detail fetch.
C11_ResetBeforeDetails ==
    [][/\ (last'.op \in {"resolve", "hit"} /\ last'.kind = "stories")
            => /\ Len(last'.notes) = 1
               /\ last'.notes[1].src = "stories"
               /\ Len(last'.notes[1].snap) = Len(records')
               /\ \A i \in DOMAIN records' :
                    LET rec == heap'[records'[i]]
                    IN /\ records'[i] \notin DOMAIN heap
                       /\ last'.notes[1].snap[i] = rec.attrs
                       /\ rec.attrs.type = <<>>
                       /\ rec.attrs.score = <<>>
                       /\ rec.merged = {}
       /\ \A r \in DOMAIN heap :
            heap'[r] # heap[r]
              => /\ last'.op \in {"resolve", "hit"}
                 /\ last'.kind = "item"
                 /\ last'.rec = r]_vars

\* A listing resolution has just created a Record whose detail is cached: the
\* merge waits in the microtask queue.
C11_Witness ==
    /\ StoriesCallbackRan
    /\ \E i \in DOMAIN records :
         /\ CACHE[ItemKey(heap[records[i]].id)] # <<>>
         /\ heap[records[i]].attrs.type = <<>>
         /\ \E j \in DOMAIN micro : micro[j].cont = ContItem(records[i])

\* C12 as claimed: a Record is loaded exactly when a detail response has been
\* merged into it, whatever the response held.
C12_LoadedIffMerged ==
    \A r \in DOMAIN heap : Loaded(Here, r) <=> heap[r].merged # {}

\* C12 as the code has it: a Record is loaded exactly when a detail response
\* carrying a type has been merged into it; a Record no response was merged
\* into is not loaded, and neither is one that only got responses without type.
C12_LoadedIffTypedMerged ==
    \A r \in DOMAIN heap :
        /\ Loaded(Here, r) <=> (\E t \in heap[r].merged : t # <<>>)
        /\ ~Loaded(Here, r) => ItemFetch(Here, r).issued # <<>>
                                \/ ItemFetch(Here, r).micro # <<>>
        /\ Loaded(Here, r) => ItemFetch(Here, r).resolved

\* A response without type has been merged into a Record, and it is not loaded.
C12_Witness ==
    \E r \in DOMAIN heap : heap[r].merged = {<<>>} /\ ~Loaded(Here, r)

\* C13: the StoryStore's page number is never negative.
C13_PageNonNegative == pageNumber >= 0

RECURSIVE DefaultsAdded(_, _)
\* b is a, but for fields attrs / events / children that a's objects lacked and
\* b's objects hold, empty.
DefaultsAdded(a, b) ==
    /\ b.kind = a.kind
    /\ b.text = a.text
    /\ b.num = a.num
    /\ b.tag = a.tag
    /\ a.has \subseteq b.has
    /\ b.attrs = a.attrs
    /\ Len(b.children) = Len(a.children)
    /\ \A i \in DOMAIN a.children : DefaultsAdded(a.children[i], b.children[i])

RECURSIVE Normalized(_)
\* Every object of the tree has all three fields.
Normalized(n) ==
    n.kind = "elem" => /\ n.has = Fields
                       /\ \A i \in DOMAIN n.children : Normalized(n.children[i])

\* C14 as claimed: a call leaves the tree it was given as it was.
C14_InputUntouched == out # <<>> => tree = given

\* C14 as the code has it: a call changes the tree it was given only by adding
\* the fields attrs, events and children, empty, to the objects that lack them:
\* to the object it is given in any case, and to every object of the tree when
\* it returns a string.
C14_OnlyDefaultsAdded ==
    out # <<>>
      => /\ DefaultsAdded(given, tree)
         /\ tree.kind = "elem" => tree.has = Fields
         /\ out[1].ok => Normalized(tree)

\* An object without attrs, events and children has been rendered to a string
\* and now has them.
C14_Witness ==
    /\ out # <<>>
    /\ out[1].ok
    /\ given.kind = "elem"
    /\ given.has = {}
    /\ tree.has = Fields
    /\ tree # given

IsPrefix(p, s) == Len(p) <= Len(s) /\ SubSeq(s, 1, Len(p)) = p

\* The attribute names C15 lists.
BooleanNames ==
    {<<"t", "y", "p", "e">>,
     <<"v", "a", "l", "u", "e">>,
     <<"s", "e", "l", "e", "c", "t", "e", "d">>,
     <<"i", "n", "d", "e", "t", "e", "r", "m", "i", "n", "a", "t", "e">>,
     <<"t", "a", "b", "I", "n", "d", "e", "x">>,
     <<"c", "h", "e", "c", "k", "e", "d">>,
     <<"d", "i", "s", "a", "b", "l", "e", "d">>}

RECURSIVE EmittedAttrs(_)
\* What C15 says the attributes other than class and style are emitted as.
EmittedAttrs(attrs) ==
    IF attrs = <<>> THEN <<>>
    ELSE LET a == Head(attrs)
             one == IF a.name \in {ClassName, StyleName} THEN <<>>
                    ELSE IF a.name \in BooleanNames
                         THEN IF a.val.t = "bool" /\ a.val.b THEN <<a.name>> ELSE <<>>
                         ELSE <<a.name \o <<"=", "\"">> \o StringOf(a.val) \o <<"\"">>>>
         IN one \o EmittedAttrs(Tail(attrs))

\* C15: the string returned for an object starts with `<tag `, then, separated
\* by single spaces and in the order of the attribute map, the bare name of
\* every listed attribute whose value is true, nothing for a listed attribute
\* with another value, and name="value" for every attribute that is not listed
\* and is neither class nor style (whitespace collapsed as in all the output);
\* then the style attribute follows.
C15_AttributeRule ==
    (out # <<>> /\ out[1].ok /\ given.kind = "elem")
      => IsPrefix(Collapse(<<"<">> \o given.tag \o <<" ">>
                             \o Join(EmittedAttrs(given.attrs), <<" ">>)
                             \o <<" ">> \o <<"s", "t", "y", "l", "e", "=", "\"">>),
                  out[1].str)

\* An input with a listed attribute that is true, a listed attribute that is
\* not, and an attribute that is not listed has been rendered.
C15_Witness ==
    /\ out # <<>>
    /\ out[1].ok
    /\ given.kind = "elem"
    /\ \E i, j, k \in DOMAIN given.attrs :
         /\ given.attrs[i].name \in BooleanNames /\ given.attrs[i].val = BoolVal(TRUE)
         /\ given.attrs[j].name \in BooleanNames /\ given.attrs[j].val.t = "str"
         /\ given.attrs[k].name \notin BooleanNames \cup {ClassName, StyleName}

\* C16: the string returned holds no newline or tab, and no two whitespace
\* characters next to each other.
C16_SingleSpaced ==
    (out # <<>> /\ out[1].ok)
      => \A i \in DOMAIN out[1].str :
            out[1].str[i] \in Whitespace
              => /\ out[1].str[i] = " "
                 /\ i > 1 => out[1].str[i - 1] \notin Whitespace

\* An object with a text child that holds a run of spaces and a newline has
\* been rendered to a string.
C16_Witness ==
    /\ out # <<>>
    /\ out[1].ok
    /\ given.kind = "elem"
    /\ \E i \in DOMAIN given.children :
         /\ given.children[i].kind = "text"
         /\ \E j \in DOMAIN given.children[i].text :
              /\ j > 1
              /\ given.children[i].text[j] = "\n"
         /\ given.children[i].text[1] = " "
         /\ given.children[i].text[2] = " "

Attached(r) == \E i \in DOMAIN records : records[i] = r

\* C21: nothing cancels a request: a step that settles no request leaves every
\* request in flight, and a listing resolution leaves every detail request in
\* flight.  When a detail fetch resolves, its response is merged into its
\* Record and the Record's subscribers are notified, whether or not a store
\* still holds the Record, and the step leaves the StoryStore's records, its
\* page number and every other Record as they were.
C21_OrphanStillMerges ==
    [][/\ last'.op \notin {"resolve", "reject"}
            => /\ Len(net') >= Len(net)
               /\ SubSeq(net', 1, Len(net)) = net
       /\ (last'.op = "resolve" /\ last'.kind = "stories")
            => \A r \in DOMAIN heap :
                 Cardinality({i \in DOMAIN net' : net'[i].cont = ContItem(r)})
                   >= Cardinality({i \in DOMAIN net : net[i].cont = ContItem(r)})
       /\ (last'.op \in {"resolve", "hit"} /\ last'.kind = "item")
            => LET r == last'.rec
                   data == last'.val[1]
               IN /\ heap'[r].id = heap[r].id
                  /\ heap'[r].attrs.score = data.score
                  /\ heap'[r].attrs.type = IF data.type # <<>> THEN data.type
                                           ELSE heap[r].attrs.type
                  /\ heap'[r].attrs.order = heap[r].attrs.order
                  /\ Len(last'.notes) = 1
                  /\ last'.notes[1].src = "record"
                  /\ last'.notes[1].rec = r
                  /\ records' = records
                  /\ cRecords' = cRecords
                  /\ pageNumber' = pageNumber
                  /\ DOMAIN heap' = DOMAIN heap
                  /\ \A q \in DOMAIN heap : q # r => heap'[q] = heap[q]]_vars

\* A detail fetch has just resolved and merged into a Record that the
\* StoryStore, reset since and holding other Records, no longer holds.
C21_Witness ==
    /\ last.op \in {"resolve", "hit"}
    /\ last.kind = "item"
    /\ ~Attached(last.rec)
    /\ records # <<>>
    /\ heap[last.rec].attrs.score # <<>>

\* C22: a Record's id never changes, and no Record holds an attribute `id`:
\* the id field of a detail response, whatever it is, is not merged.
C22_IdNeverMerged ==
    [][\A r \in DOMAIN heap :
         /\ r \in DOMAIN heap'
         /\ heap'[r].id = heap[r].id
         /\ heap'[r].attrs.id = <<>>
         /\ (last'.op \in {"resolve", "hit"} /\ last'.kind = "item" /\ last'.rec = r)
              => last'.notes[1].snap[1].id = <<>>]_vars

\* A detail response that carries another id than the Record's has just been
\* merged into the Record.
C22_Witness ==
    /\ last.op \in {"resolve", "hit"}
    /\ last.kind = "item"
    /\ last.val[1].id # heap[last.rec].id
    /\ heap[last.rec].attrs.score = last.val[1].score
    /\ heap[last.rec].attrs.id = <<>>

Contains(s, p) ==
    \E i \in 1..(Len(s) - Len(p) + 1) : SubSeq(s, i, i + Len(p) - 1) = p

\* The style declarations of an attribute map, as C23 says they are emitted.
StyleText(attrs) ==
    IF \E i \in DOMAIN attrs : attrs[i].name = StyleName
    THEN LET ps == attrs[CHOOSE i \in DOMAIN attrs : attrs[i].name = StyleName].val.pairs
         IN Join([i \in DOMAIN ps |-> ps[i].k \o <<" ">> \o ps[i].v], <<";">>)
    ELSE <<>>

\* C23: every call on an object returns a string, also when the attributes
\* hold style declarations, and the string holds style="..." with each
\* declaration as `prop value` and `;` between declarations.
C23_NeverFails ==
    (out # <<>> /\ given.kind = "elem")
      => /\ out[1].ok
         /\ Contains(out[1].str,
                     Collapse(<<"s", "t", "y", "l", "e", "=", "\"">> \o StyleText(given.attrs) \o <<"\"", " ", "c", "l", "a", "s", "s", "=", "\"">>))

IsSuffix(p, s) == Len(p) <= Len(s) /\ SubSeq(s, Len(s) - Len(p) + 1, Len(s)) = p

\* What C24 says a child contributes.
ChildForm(c) ==
    CASE c.kind = "null" -> <<"<", "!", "-", "-", " ", "-", "-", ">">>
      [] c.kind = "text" -> c.text
      [] c.kind = "num" -> Digits(c.num)
      [] OTHER -> StringRenderJDOM(c).str

RECURSIVE ChildForms(_)
ChildForms(children) ==
    IF children = <<>> THEN <<>>
    ELSE ChildForm(Head(children)) \o ChildForms(Tail(children))

\* C24: the string returned for an object ends with the `>` of the opening
\* tag, the contributions of the children in child order with nothing put
\* between them, and `</tag>` (whitespace collapsed as in all the output): a
\* null child contributes `<!-- -->`, a string or number child its string form,
\* an object child the string returned for it.
C24_ChildrenInOrder ==
    (out # <<>> /\ out[1].ok /\ given.kind = "elem")
      => IsSuffix(Collapse(<<"\"", ">", " ">> \o ChildForms(given.children)
                             \o <<" ", "<", "/">> \o given.tag \o <<">">>),
                  out[1].str)

\* An object with two different children, one of them null, has been rendered
\* to a string.
C24_Witness ==
    /\ out # <<>>
    /\ out[1].ok
    /\ given.kind = "elem"
    /\ Len(given.children) >= 2
    /\ given.children[1] # given.children[2]
    /\ \E i \in DOMAIN given.children : given.children[i].kind = "null"
    /\ \E i \in DOMAIN given.children : given.children[i].kind \in {"text", "num"}

\* C25: when the later issued of two loads of a key in flight together has
\* resolved and then the earlier issued one resolves, the cache still holds
\* the response of the later issued load.  (net is in issue order, so the
\* request settled second was issued earlier when its place in net is below
\* the place the first one had.)
C25_LaterIssuedWins ==
    [][(/\ last.op = "resolve"
        /\ last'.op = "resolve"
        /\ last'.key = last.key
        /\ last'.idx < last.idx)
          => CACHE'[last.key] = last.val]_vars

====
